---------------------------- MODULE Spec2Model ----------------------------
(***************************************************************************)
(* Model of the thumbor request protocol (05_my_thumbor/src/pb/mod.rs,     *)
(* 05_my_thumbor/src/engine/mod.rs) and of the key=value argument parser   *)
(* of 04_my_httpie/src/main.rs.                                            *)
(*                                                                         *)
(* Bytes are integers 0..255.  Text is a sequence of one-character         *)
(* strings.  A 32-bit field is kept as its five base-128 digits, least     *)
(* significant first (the fifth digit holds bits 28..31), so that the      *)
(* whole uint32 range, 4294967295 included, is representable and the       *)
(* varint conversion is computed digit by digit as the wire format does.   *)
(***************************************************************************)
EXTENDS Integers, Sequences, FiniteSets, TLC

VARIABLES
    specs,      \* client side: the Vec<Spec> handed to ImageSpec::new
    lastCall,   \* the last Spec constructor call: its name and arguments
    wire,       \* raw wire bytes of a token built by another encoder
    records,    \* the records a newer encoder put on the wire
    token,      \* the token text
    decoded,    \* the result of ImageSpec::try_from(token)
    image,      \* engine: the pixel buffer held by the engine
    engine,     \* engine: "none" yet, "live", "consumed" (by generate), "dropped"
    output,     \* engine: the bytes returned by generate, None before
    applied,    \* engine: every Spec handed to apply so far, in call order
    generates,  \* engine: number of generate calls so far
    applies,    \* engine: number of apply calls so far
    kvInput,    \* httpie: the argument text given to parse_kv_pair
    kvResult,   \* httpie: the result of parse_kv_pair
    pc          \* position of the scenario being run

vars == <<specs, lastCall, wire, records, token, decoded, image, engine,
          output, applied, generates, applies, kvInput, kvResult, pc>>

None == [none |-> TRUE]

(***************************************************************************)
(* Bounds of the model.                                                    *)
(***************************************************************************)
MaxSpecs == 2
MaxTokenLen == 4
MaxWireLen == 3
MaxRecords == 3
MaxApplies == 2
MaxKvLen == 4

(***************************************************************************)
(* 32-bit values as five base-128 digits.                                  *)
(***************************************************************************)
U32(n) == <<n % 128, (n \div 128) % 128, (n \div 16384) % 128,
            (n \div 2097152) % 128, (n \div 268435456) % 16>>

U32Max == <<127, 127, 127, 127, 15>>

U32Zero == U32(0)

IsU32(d) == /\ d \in Seq(0..127)
            /\ Len(d) = 5
            /\ d[5] < 16

(***************************************************************************)
(* base64: the URL_SAFE alphabet and the STANDARD one it differs from.     *)
(***************************************************************************)
Upper == <<"A","B","C","D","E","F","G","H","I","J","K","L","M",
           "N","O","P","Q","R","S","T","U","V","W","X","Y","Z">>
Lower == <<"a","b","c","d","e","f","g","h","i","j","k","l","m",
           "n","o","p","q","r","s","t","u","v","w","x","y","z">>
Digit == <<"0","1","2","3","4","5","6","7","8","9">>

URL_SAFE == Upper \o Lower \o Digit \o <<"-", "_">>
STANDARD == Upper \o Lower \o Digit \o <<"+", "/">>

Range(f) == {f[i] : i \in DOMAIN f}

\* the symbol of a 6-bit value in an alphabet
Symbol(alphabet, v) == alphabet[v + 1]

\* the 6-bit value of a symbol of the alphabet
SymbolValue(alphabet, c) == (CHOOSE i \in DOMAIN alphabet : alphabet[i] = c) - 1

RECURSIVE B64Encode(_, _, _)
\* engine.encode(data): three bytes give four symbols; a remainder of one
\* byte gives two symbols, of two bytes three; `pad` appends '=' up to a
\* multiple of four symbols.
B64Encode(alphabet, pad, data) ==
    IF Len(data) = 0 THEN <<>>
    ELSE IF Len(data) = 1 THEN
        <<Symbol(alphabet, data[1] \div 4),
          Symbol(alphabet, (data[1] % 4) * 16)>>
        \o (IF pad THEN <<"=", "=">> ELSE <<>>)
    ELSE IF Len(data) = 2 THEN
        <<Symbol(alphabet, data[1] \div 4),
          Symbol(alphabet, (data[1] % 4) * 16 + data[2] \div 16),
          Symbol(alphabet, (data[2] % 16) * 4)>>
        \o (IF pad THEN <<"=">> ELSE <<>>)
    ELSE
        <<Symbol(alphabet, data[1] \div 4),
          Symbol(alphabet, (data[1] % 4) * 16 + data[2] \div 16),
          Symbol(alphabet, (data[2] % 16) * 4 + data[3] \div 64),
          Symbol(alphabet, data[3] % 64)>>
        \o B64Encode(alphabet, pad, SubSeq(data, 4, Len(data)))

RECURSIVE B64DecodeValues(_)
\* the bytes of a sequence of 6-bit values whose length is not 1 mod 4
B64DecodeValues(v) ==
    IF Len(v) = 0 THEN <<>>
    ELSE IF Len(v) = 2 THEN <<v[1] * 4 + v[2] \div 16>>
    ELSE IF Len(v) = 3 THEN
        <<v[1] * 4 + v[2] \div 16, (v[2] % 16) * 16 + v[3] \div 4>>
    ELSE
        <<v[1] * 4 + v[2] \div 16,
          (v[2] % 16) * 16 + v[3] \div 4,
          (v[3] % 4) * 64 + v[4]>>
        \o B64DecodeValues(SubSeq(v, 5, Len(v)))

\* engine.decode(text) of an engine without padding that rejects trailing
\* bits: an error for a symbol outside the alphabet ('=' included), for a
\* length of 1 mod 4, and for a last symbol with unused bits set.
B64Decode(alphabet, text) ==
    LET n == Len(text)
        v == [i \in 1..n |-> SymbolValue(alphabet, text[i])]
    IN  IF \E i \in 1..n : text[i] \notin Range(alphabet)
            THEN [ok |-> FALSE, error |-> "InvalidByte"]
        ELSE IF n % 4 = 1
            THEN [ok |-> FALSE, error |-> "InvalidLength"]
        ELSE IF \/ (n % 4 = 2 /\ v[n] % 16 # 0)
                \/ (n % 4 = 3 /\ v[n] % 4 # 0)
            THEN [ok |-> FALSE, error |-> "InvalidLastSymbol"]
        ELSE [ok |-> TRUE, data |-> B64DecodeValues(v)]


(***************************************************************************)
(* The message schema (pb/abi.rs, generated from the .proto): field        *)
(* numbers and enumeration values.                                         *)
(***************************************************************************)
ImageSpecField == [specs |-> 1]
SpecField == [resize |-> 1, filter |-> 2]
ResizeField == [width |-> 1, height |-> 2, rtype |-> 3, filter |-> 4]
FilterField == [filter |-> 1]

ResizeType == [Normal |-> U32(0), SeamCarve |-> U32(1)]
SampleFilter == [Undefined |-> U32(0), Nearest |-> U32(1), Triangle |-> U32(2),
                 CatmullRom |-> U32(3), Gaussian |-> U32(4), Lanczos3 |-> U32(5)]
FilterEnum == [Unspecified |-> U32(0), Oceanic |-> U32(1), Islands |-> U32(2),
               Marine |-> U32(3)]

SampleFilterNames == DOMAIN SampleFilter
FilterNames == DOMAIN FilterEnum

\* prost's Default of each message
DefaultResize == [width |-> U32Zero, height |-> U32Zero,
                  rtype |-> U32Zero, filter |-> U32Zero]
DefaultFilter == [filter |-> U32Zero]
DefaultSpec == [data |-> None]
DefaultImageSpec == [specs |-> <<>>]

ResizeData(r) == [variant |-> "Resize", v |-> r]
FilterData(f) == [variant |-> "Filter", v |-> f]

(***************************************************************************)
(* prost::encoding: varints, keys, wire types.                             *)
(***************************************************************************)
\* WireType::try_from(key & 7)
WireTypeOf(n) ==
    CASE n = 0 -> "Varint"
      [] n = 1 -> "SixtyFourBit"
      [] n = 2 -> "LengthDelimited"
      [] n = 3 -> "StartGroup"
      [] n = 4 -> "EndGroup"
      [] n = 5 -> "ThirtyTwoBit"
      [] OTHER -> "Invalid"

\* wire_type as u64
WireTypeNumber(w) == CHOOSE n \in 0..5 : WireTypeOf(n) = w

\* encode_varint of a sequence of base-128 digits: the digits up to the
\* last non-zero one, every byte but the last with the continuation bit
VarintOfDigits(d) ==
    LET nz == {i \in DOMAIN d : d[i] # 0}
        k == IF nz = {} THEN 1 ELSE CHOOSE i \in nz : \A j \in nz : j <= i
    IN  [i \in 1..k |-> IF i < k THEN d[i] + 128 ELSE d[i]]

\* encode_varint(value as u64) of a uint32
EncodeVarintU32(d) == VarintOfDigits(d)

\* encode_varint(value as u64) of an int32: a negative value is sign
\* extended to 64 bits and takes ten bytes
EncodeVarintI32(d) ==
    IF d[5] >= 8
        THEN VarintOfDigits(<<d[1], d[2], d[3], d[4], d[5] + 112,
                              127, 127, 127, 127, 1>>)
        ELSE VarintOfDigits(d)

\* encode_varint of a small natural (a key, a length)
EncodeVarintNat(n) == VarintOfDigits(U32(n))

\* encode_key(tag, wire_type)
EncodeKey(tag, w) == EncodeVarintNat(tag * 8 + WireTypeNumber(w))

RECURSIVE DecodeVarintFrom(_, _, _)
\* decode_varint, byte `count` (from 0) at position pos: at most ten bytes,
\* the tenth at most 1; an error when the buffer ends first
DecodeVarintFrom(buf, pos, count) ==
    IF count >= 10 \/ pos > Len(buf) THEN [ok |-> FALSE]
    ELSE IF buf[pos] < 128 THEN
        IF count = 9 /\ buf[pos] >= 2 THEN [ok |-> FALSE]
        ELSE [ok |-> TRUE, pos |-> pos + 1, digits |-> <<buf[pos]>>]
    ELSE
        LET rest == DecodeVarintFrom(buf, pos + 1, count + 1)
        IN  IF ~rest.ok THEN rest
            ELSE [ok |-> TRUE, pos |-> rest.pos,
                  digits |-> <<buf[pos] - 128>> \o rest.digits]

DecodeVarint(buf, pos) == DecodeVarintFrom(buf, pos, 0)

\* `value as u32` / `value as i32` of a decoded u64: the low 32 bits
AsU32(digits) ==
    [i \in 1..5 |-> IF i > Len(digits) THEN 0
                    ELSE IF i = 5 THEN digits[i] % 16
                    ELSE digits[i]]

\* value <= u32::MAX
FitsU32(digits) ==
    \A i \in DOMAIN digits : (i = 5 => digits[i] < 16) /\ (i > 5 => digits[i] = 0)

\* a decoded length as a number; any length of 2^21 or more exceeds every
\* buffer of the model and is returned as 2^21
LengthOf(digits) ==
    IF \E i \in DOMAIN digits : i >= 4 /\ digits[i] # 0 THEN 2097152
    ELSE LET d == AsU32(digits) IN d[1] + 128 * d[2] + 16384 * d[3]

\* key >> 3 of a key held as 32 bits
TagOf(d) == d[1] \div 8 + 16 * d[2] + 2048 * d[3] + 262144 * d[4]
            + 33554432 * d[5]

\* the wire type and the tag of the key d: the low three bits are a valid
\* wire type, the rest is a tag of at least 1
KeyOfU32(pos, d) ==
    IF WireTypeOf(d[1] % 8) = "Invalid" THEN [ok |-> FALSE]
    ELSE IF TagOf(d) < 1 THEN [ok |-> FALSE]
    ELSE [ok |-> TRUE, pos |-> pos, tag |-> TagOf(d),
          wire_type |-> WireTypeOf(d[1] % 8)]

\* decode_key on the varint v just read: the key must fit a u32
KeyOfVarint(v) ==
    IF ~v.ok THEN [ok |-> FALSE]
    ELSE IF ~FitsU32(v.digits) THEN [ok |-> FALSE]
    ELSE KeyOfU32(v.pos, AsU32(v.digits))

\* decode_key
DecodeKey(buf, pos) == KeyOfVarint(DecodeVarint(buf, pos))

\* buf.advance(n) from position `from`, after the check against remaining()
Advance(buf, from, n) ==
    IF n > Len(buf) - from + 1 THEN [ok |-> FALSE]
    ELSE [ok |-> TRUE, pos |-> from + n]

\* skip_field of a varint field, v the varint read
SkipVarint(v) == IF v.ok THEN [ok |-> TRUE, pos |-> v.pos] ELSE [ok |-> FALSE]

\* skip_field of a length-delimited field, v the length read
SkipDelimited(buf, v) ==
    IF v.ok THEN Advance(buf, v.pos, LengthOf(v.digits)) ELSE [ok |-> FALSE]

RECURSIVE SkipField(_, _, _, _)
RECURSIVE SkipGroupKey(_, _, _)
RECURSIVE SkipGroupRest(_, _, _)

\* the loop of skip_field over the fields of a group, up to its end key
SkipGroup(tag, buf, pos) == SkipGroupKey(tag, buf, DecodeKey(buf, pos))

\* skip_field: the bytes of a field this decoder does not know
SkipField(w, tag, buf, pos) ==
    CASE w = "Varint" -> SkipVarint(DecodeVarint(buf, pos))
      [] w = "SixtyFourBit" -> Advance(buf, pos, 8)
      [] w = "ThirtyTwoBit" -> Advance(buf, pos, 4)
      [] w = "LengthDelimited" -> SkipDelimited(buf, DecodeVarint(buf, pos))
      [] w = "StartGroup" -> SkipGroup(tag, buf, pos)
      [] OTHER -> [ok |-> FALSE]

\* one turn of the group loop, k the key read: the end key of this group
\* ends it, any other field is skipped in turn
SkipGroupKey(tag, buf, k) ==
    IF ~k.ok THEN [ok |-> FALSE]
    ELSE IF k.wire_type = "EndGroup" THEN
        IF k.tag # tag THEN [ok |-> FALSE]
        ELSE [ok |-> TRUE, pos |-> k.pos]
    ELSE SkipGroupRest(tag, buf, SkipField(k.wire_type, k.tag, buf, k.pos))

\* the group loop after the inner field was skipped
SkipGroupRest(tag, buf, inner) ==
    IF ~inner.ok THEN [ok |-> FALSE]
    ELSE SkipGroupKey(tag, buf, DecodeKey(buf, inner.pos))

(***************************************************************************)
(* Message::encode_raw of each message: a scalar field is written unless   *)
(* it holds its default, a oneof member and a repeated message always.     *)
(***************************************************************************)
\* uint32::encode(tag, value)
EncodeU32Field(tag, d) ==
    IF d = U32Zero THEN <<>> ELSE EncodeKey(tag, "Varint") \o EncodeVarintU32(d)

\* int32::encode(tag, value), the encoding of an enumeration field
EncodeI32Field(tag, d) ==
    IF d = U32Zero THEN <<>> ELSE EncodeKey(tag, "Varint") \o EncodeVarintI32(d)

\* message::encode(tag, msg): key, length, body
EncodeMessageField(tag, body) ==
    EncodeKey(tag, "LengthDelimited") \o EncodeVarintNat(Len(body)) \o body

EncodeResize(r) ==
    EncodeU32Field(ResizeField.width, r.width)
    \o EncodeU32Field(ResizeField.height, r.height)
    \o EncodeI32Field(ResizeField.rtype, r.rtype)
    \o EncodeI32Field(ResizeField.filter, r.filter)

EncodeFilter(f) == EncodeI32Field(FilterField.filter, f.filter)

EncodeSpec(s) ==
    IF s.data = None THEN <<>>
    ELSE IF s.data.variant = "Resize"
        THEN EncodeMessageField(SpecField.resize, EncodeResize(s.data.v))
    ELSE EncodeMessageField(SpecField.filter, EncodeFilter(s.data.v))

RECURSIVE EncodeSpecs(_)
EncodeSpecs(list) ==
    IF list = <<>> THEN <<>>
    ELSE EncodeMessageField(ImageSpecField.specs, EncodeSpec(Head(list)))
         \o EncodeSpecs(Tail(list))

\* image_spec.encode_to_vec()
EncodeToVec(image_spec) == EncodeSpecs(image_spec.specs)

(***************************************************************************)
(* Message::merge_field of each message and the loops around it.           *)
(***************************************************************************)
RECURSIVE MergeLoop(_, _, _, _, _)
RECURSIVE MergeField(_, _, _, _, _, _)

\* message::merge after the length `len` was read: the length is compared
\* with what remains and the fields are merged up to the limit
MergeDelimited(msg, value, buf, len) ==
    IF ~len.ok THEN [ok |-> FALSE]
    ELSE IF LengthOf(len.digits) > Len(buf) - len.pos + 1 THEN [ok |-> FALSE]
    ELSE MergeLoop(msg, value, buf, len.pos, len.pos + LengthOf(len.digits))

\* message::merge of a nested message: the wire type is checked first
MergeMessage(msg, value, w, buf, pos) ==
    IF w # "LengthDelimited" THEN [ok |-> FALSE]
    ELSE MergeDelimited(msg, value, buf, DecodeVarint(buf, pos))

\* the 32-bit value of the varint v
ScalarOfVarint(v) ==
    IF ~v.ok THEN [ok |-> FALSE]
    ELSE [ok |-> TRUE, pos |-> v.pos, value |-> AsU32(v.digits)]

\* uint32::merge / int32::merge: a varint, cast to 32 bits
MergeScalar(w, buf, pos) ==
    IF w # "Varint" THEN [ok |-> FALSE]
    ELSE ScalarOfVarint(DecodeVarint(buf, pos))

\* the message left unchanged by a field that was skipped
SkippedAt(value, r) ==
    IF r.ok THEN [ok |-> TRUE, pos |-> r.pos, value |-> value]
    ELSE [ok |-> FALSE]

Skipped(value, w, tag, buf, pos) == SkippedAt(value, SkipField(w, tag, buf, pos))

\* the fields each message declares
FieldName(msg, tag) ==
    LET fields == CASE msg = "ImageSpec" -> ImageSpecField
                    [] msg = "Spec" -> SpecField
                    [] msg = "Resize" -> ResizeField
                    [] msg = "Filter" -> FilterField
    IN  IF \E f \in DOMAIN fields : fields[f] = tag
            THEN [some |-> CHOOSE f \in DOMAIN fields : fields[f] = tag]
            ELSE None

\* the message a oneof member of Spec is merged into: the member already
\* there when it is the same variant, a default one otherwise
OneofTarget(value, variant, default) ==
    IF value.data # None /\ value.data.variant = variant
        THEN value.data.v ELSE default

\* the message after field `name` received the merged result r
WithField(msg, value, name, r) ==
    IF ~r.ok THEN [ok |-> FALSE]
    ELSE [ok |-> TRUE, pos |-> r.pos,
          value |->
            CASE msg = "ImageSpec" -> [specs |-> Append(value.specs, r.value)]
              [] msg = "Spec" /\ name = "resize" -> [data |-> ResizeData(r.value)]
              [] msg = "Spec" /\ name = "filter" -> [data |-> FilterData(r.value)]
              [] OTHER -> [value EXCEPT ![name] = r.value]]

\* merge_field of message `msg` into `value`: a declared field is merged
\* (ImageSpec.specs and the members of Spec.data as nested messages, the
\* fields of Resize and Filter as 32-bit varints), any other tag is skipped
MergeField(msg, value, tag, w, buf, pos) ==
    IF FieldName(msg, tag) = None THEN Skipped(value, w, tag, buf, pos)
    ELSE IF msg \in {"Resize", "Filter"} THEN
        WithField(msg, value, FieldName(msg, tag).some, MergeScalar(w, buf, pos))
    ELSE
        WithField(msg, value, FieldName(msg, tag).some,
            MergeMessage(
                CASE msg = "ImageSpec" -> "Spec"
                  [] FieldName(msg, tag).some = "resize" -> "Resize"
                  [] OTHER -> "Filter",
                CASE msg = "ImageSpec" -> DefaultSpec
                  [] FieldName(msg, tag).some = "resize" ->
                        OneofTarget(value, "Resize", DefaultResize)
                  [] OTHER -> OneofTarget(value, "Filter", DefaultFilter),
                w, buf, pos))

\* the loop after a field was merged with result r
MergeLoopNext(msg, buf, stop, r) ==
    IF ~r.ok THEN [ok |-> FALSE]
    ELSE MergeLoop(msg, r.value, buf, r.pos, stop)

\* one turn of the loop, k the key read
MergeLoopKey(msg, value, buf, stop, k) ==
    IF ~k.ok THEN [ok |-> FALSE]
    ELSE MergeLoopNext(msg, buf, stop,
                       MergeField(msg, value, k.tag, k.wire_type, buf, k.pos))

\* the loop of Message::decode and of merge_loop: fields are merged while
\* bytes remain before `stop`; a field that runs past it is an error
MergeLoop(msg, value, buf, pos, stop) ==
    IF pos = stop THEN [ok |-> TRUE, pos |-> pos, value |-> value]
    ELSE IF pos > stop THEN [ok |-> FALSE]
    ELSE MergeLoopKey(msg, value, buf, stop, DecodeKey(buf, pos))

\* the Result of Message::decode from the state of the loop at its end
DecodeResult(r) ==
    IF r.ok THEN [ok |-> TRUE, value |-> r.value] ELSE [ok |-> FALSE]

\* ImageSpec::decode(&data[..])
ProstDecode(data) ==
    DecodeResult(MergeLoop("ImageSpec", DefaultImageSpec, data, 1, Len(data) + 1))

(***************************************************************************)
(* pb/mod.rs                                                               *)
(***************************************************************************)
\* ImageSpec::new as a constructor that normalises the pipeline, resizes
\* first
ImageSpecNewNormalised(list) ==
    [specs |-> SelectSeq(list, LAMBDA x : x.data # None /\ x.data.variant = "Resize")
               \o SelectSeq(list, LAMBDA x : ~(x.data # None /\ x.data.variant = "Resize"))]

\* ImageSpec::new
ImageSpecNew(list) == [specs |-> list]

\* the encoder with general_purpose::URL_SAFE, which pads
ImageSpecToStringPadded(image_spec) ==
    B64Encode(URL_SAFE, TRUE, EncodeToVec(image_spec))

\* the encoder with general_purpose::STANDARD_NO_PAD
ImageSpecToStringStandard(image_spec) ==
    B64Encode(STANDARD, FALSE, EncodeToVec(image_spec))

\* impl From<&ImageSpec> for String
ImageSpecToString(image_spec) ==
    LET data == EncodeToVec(image_spec)
    IN  B64Encode(URL_SAFE, FALSE, data)

\* try_from that answers a failed parse with ImageSpec::default()
TryFromBytesOrDefault(spec) ==
    IF ~spec.ok THEN [ok |-> TRUE, value |-> DefaultImageSpec]
    ELSE [ok |-> TRUE, value |-> spec.value]

\* try_from that rejects an ImageSpec holding a Spec without data
TryFromBytesStrict(spec) ==
    IF ~spec.ok THEN [ok |-> FALSE, error |-> "prost::DecodeError"]
    ELSE IF \E i \in DOMAIN spec.value.specs : spec.value.specs[i].data = None
        THEN [ok |-> FALSE, error |-> "prost::DecodeError"]
    ELSE [ok |-> TRUE, value |-> spec.value]

\* the second line of try_from: ImageSpec::decode(&data[..])?
TryFromBytes(spec) ==
    IF ~spec.ok THEN [ok |-> FALSE, error |-> "prost::DecodeError"]
    ELSE [ok |-> TRUE, value |-> spec.value]

\* the first line of try_from: URL_SAFE_NO_PAD.decode(value)?
TryFromBase64(data) ==
    IF ~data.ok THEN [ok |-> FALSE, error |-> "base64::DecodeError"]
    ELSE TryFromBytes(ProstDecode(data.data))

\* try_from with general_purpose::STANDARD_NO_PAD
ImageSpecTryFromStandard(value) == TryFromBase64(B64Decode(STANDARD, value))

\* impl TryFrom<&str> for ImageSpec: either `?` turns the library's error
\* into an anyhow::Error that wraps it; `error` names the wrapped type
ImageSpecTryFrom(value) == TryFromBase64(B64Decode(URL_SAFE, value))

\* to_str with the first arm copied from the second
FilterToStrCopied(name) ==
    CASE name = "Unspecified" -> [some |-> "oceanic"]
      [] name = "Oceanic" -> [some |-> "oceanic"]
      [] name = "Islands" -> [some |-> "islands"]
      [] name = "Marine" -> [some |-> "marine"]

\* filter::Filter::to_str
FilterToStr(name) ==
    CASE name = "Unspecified" -> None
      [] name = "Oceanic" -> [some |-> "oceanic"]
      [] name = "Islands" -> [some |-> "islands"]
      [] name = "Marine" -> [some |-> "marine"]

\* impl From<resize::SampleFilter> for SamplingFilter
SamplingFilterFrom(name) ==
    CASE name = "Undefined" -> "Nearest"
      [] name = "Nearest" -> "Nearest"
      [] name = "Triangle" -> "Triangle"
      [] name = "CatmullRom" -> "CatmullRom"
      [] name = "Gaussian" -> "Gaussian"
      [] name = "Lanczos3" -> "Lanczos3"

\* new_resize_seam_carve with the resize type of new_resize
NewResizeSeamCarveNormal(width, height) ==
    [data |-> ResizeData([width |-> width, height |-> height,
                          rtype |-> ResizeType.Normal,
                          filter |-> SampleFilter.Undefined])]

\* Spec::new_resize_seam_carve
NewResizeSeamCarve(width, height) ==
    [data |-> ResizeData([width |-> width, height |-> height,
                          rtype |-> ResizeType.SeamCarve,
                          filter |-> SampleFilter.Undefined])]

\* Spec::new_resize
NewResize(width, height, filter) ==
    [data |-> ResizeData([width |-> width, height |-> height,
                          rtype |-> ResizeType.Normal,
                          filter |-> SampleFilter[filter]])]

\* Spec::new_filter
NewFilter(filter) == [data |-> FilterData([filter |-> FilterEnum[filter]])]

(***************************************************************************)
(* Scenario 1, the codec: a client builds Specs with the constructors,     *)
(* encodes the ImageSpec into a token, the server decodes the token.       *)
(***************************************************************************)
WidthSamples == {U32Zero, U32(600), U32Max}
HeightSamples == {U32Zero, U32(600)}

\* the variables of the scenarios that are not running
CodecIdle == /\ specs = <<>> /\ lastCall = None /\ token = None /\ decoded = None
WireIdle == /\ wire = <<>> /\ records = <<>>
EngineIdle == /\ image = None /\ engine = "none" /\ output = None
              /\ applied = <<>> /\ generates = 0 /\ applies = 0
KvIdle == /\ kvInput = <<>> /\ kvResult = None

wireVars == <<wire, records>>
engineVars == <<image, engine, output, applied, generates, applies>>
kvVars == <<kvInput, kvResult>>

InitCodec == /\ pc = "build"
             /\ CodecIdle /\ WireIdle /\ EngineIdle /\ KvIdle

CallNewResize(width, height, filter) ==
    /\ pc = "build"
    /\ Len(specs) < MaxSpecs
    /\ specs' = Append(specs, NewResize(width, height, filter))
    /\ lastCall' = [fn |-> "new_resize", width |-> width, height |-> height,
                    filter |-> filter]
    /\ UNCHANGED <<token, decoded, pc, wireVars, engineVars, kvVars>>

CallNewResizeSeamCarve(width, height) ==
    /\ pc = "build"
    /\ Len(specs) < MaxSpecs
    /\ specs' = Append(specs, NewResizeSeamCarve(width, height))
    /\ lastCall' = [fn |-> "new_resize_seam_carve", width |-> width,
                    height |-> height]
    /\ UNCHANGED <<token, decoded, pc, wireVars, engineVars, kvVars>>

CallNewFilter(filter) ==
    /\ pc = "build"
    /\ Len(specs) < MaxSpecs
    /\ specs' = Append(specs, NewFilter(filter))
    /\ lastCall' = [fn |-> "new_filter", filter |-> filter]
    /\ UNCHANGED <<token, decoded, pc, wireVars, engineVars, kvVars>>

\* let encode: String = image_spec.borrow().into()
Encode ==
    /\ pc = "build"
    /\ token' = ImageSpecToString(ImageSpecNew(specs))
    /\ pc' = "encoded"
    /\ UNCHANGED <<specs, lastCall, decoded, wireVars, engineVars, kvVars>>

\* encode.as_str().try_into()
Decode ==
    /\ pc = "encoded"
    /\ decoded' = ImageSpecTryFrom(token)
    /\ pc' = "decoded"
    /\ UNCHANGED <<specs, lastCall, token, wireVars, engineVars, kvVars>>

NextCodec ==
    \/ \E w \in WidthSamples, h \in HeightSamples, f \in SampleFilterNames :
            CallNewResize(w, h, f)
    \/ \E w \in WidthSamples, h \in HeightSamples : CallNewResizeSeamCarve(w, h)
    \/ \E f \in FilterNames : CallNewFilter(f)
    \/ Encode
    \/ Decode

SpecCodec == InitCodec /\ [][NextCodec]_vars

(***************************************************************************)
(* Scenario 2, tokens from anywhere: the server decodes an arbitrary text. *)
(***************************************************************************)
TokenChars == {"A", "C", "Q", "g", "8", "-", "_", "+", "/", "=", " ", "!"}

InitToken == /\ pc = "token"
             /\ specs = <<>> /\ lastCall = None /\ token = <<>> /\ decoded = None
             /\ WireIdle /\ EngineIdle /\ KvIdle

\* one more character of the request path
TokenAppend(c) ==
    /\ pc = "token"
    /\ Len(token) < MaxTokenLen
    /\ token' = Append(token, c)
    /\ UNCHANGED <<specs, lastCall, decoded, pc, wireVars, engineVars, kvVars>>

\* ImageSpec::try_from(token)
DecodeToken ==
    /\ pc = "token"
    /\ decoded' = ImageSpecTryFrom(token)
    /\ pc' = "decoded"
    /\ UNCHANGED <<specs, lastCall, token, wireVars, engineVars, kvVars>>

NextToken ==
    \/ \E c \in TokenChars : TokenAppend(c)
    \/ DecodeToken

SpecToken == InitToken /\ [][NextToken]_vars

(***************************************************************************)
(* Scenario 3, wire bytes from another encoder: raw bytes, or the records  *)
(* of an encoder that knows operation kinds this decoder does not.         *)
(***************************************************************************)
ByteSamples == {0, 1, 8, 9, 10, 11, 12, 13, 15, 16, 18, 128, 138, 255}

\* a record of the newer encoder: a Spec this decoder knows, or a Spec
\* whose oneof member has a field number this decoder does not know
KnownRecord(s) == [kind |-> "known", spec |-> s]
UnknownRecord(tag, body) == [kind |-> "unknown", tag |-> tag, body |-> body]

KnownSamples == {NewResize(U32(600), U32(600), "CatmullRom"),
                 NewResizeSeamCarve(U32Max, U32Zero),
                 NewFilter("Marine")}
UnknownTags == {3, 7, 16}
UnknownBodies == {<<>>, <<8, 1>>, <<8, 216, 4, 21, 0, 0, 128, 63>>}

\* the Spec message of a record as the newer encoder writes it
EncodeRecord(r) ==
    IF r.kind = "known" THEN EncodeSpec(r.spec)
    ELSE EncodeMessageField(r.tag, r.body)

RECURSIVE EncodeRecords(_)
EncodeRecords(list) ==
    IF list = <<>> THEN <<>>
    ELSE EncodeMessageField(ImageSpecField.specs, EncodeRecord(Head(list)))
         \o EncodeRecords(Tail(list))

InitWire == /\ pc = "wire"
            /\ CodecIdle /\ WireIdle /\ EngineIdle /\ KvIdle

\* one more raw byte
WireAppend(b) ==
    /\ pc = "wire"
    /\ records = <<>>
    /\ Len(wire) < MaxWireLen
    /\ wire' = Append(wire, b)
    /\ UNCHANGED <<records, specs, lastCall, token, decoded, pc, engineVars, kvVars>>

\* one more record written by the newer encoder
WireRecord(r) ==
    /\ pc = "wire"
    /\ wire = EncodeRecords(records)
    /\ Len(records) < MaxRecords
    /\ records' = Append(records, r)
    /\ wire' = EncodeRecords(records')
    /\ UNCHANGED <<specs, lastCall, token, decoded, pc, engineVars, kvVars>>

\* the bytes become a token: URL_SAFE_NO_PAD.encode(wire)
WireToToken ==
    /\ pc = "wire"
    /\ token' = B64Encode(URL_SAFE, FALSE, wire)
    /\ pc' = "encoded"
    /\ UNCHANGED <<wire, records, specs, lastCall, decoded, engineVars, kvVars>>

NextWire ==
    \/ \E b \in ByteSamples : WireAppend(b)
    \/ \E s \in KnownSamples : WireRecord(KnownRecord(s))
    \/ \E t \in UnknownTags, b \in UnknownBodies : WireRecord(UnknownRecord(t, b))
    \/ WireToToken
    \/ Decode

SpecWire == InitWire /\ [][NextWire]_vars

(***************************************************************************)
(* The engine (engine/mod.rs).  The pixel buffer is kept symbolically: its *)
(* dimensions and the list of the primitives applied to the source pixels. *)
(***************************************************************************)
ImageFormats == {"Jpeg", "Png"}

\* the buffer loaded from the source bytes before apply
SourceImage == [width |-> U32(1200), height |-> U32(800), pixels |-> <<"source">>]

\* prost's from_i32 of an enumeration: the member with that value, if any
EnumFromI32(enum, d) ==
    IF \E n \in DOMAIN enum : enum[n] = d
        THEN [some |-> CHOOSE n \in DOMAIN enum : enum[n] = d]
        ELSE None

\* SpecTransform<&Resize>::transform
TransformResize(img, op) ==
    LET rtype == EnumFromI32(ResizeType, op.rtype)
        filter == EnumFromI32(SampleFilter, op.filter)
    IN  IF rtype = None THEN img
        ELSE IF rtype.some = "SeamCarve" THEN
            [width |-> op.width, height |-> op.height,
             pixels |-> Append(img.pixels, "seam_carve")]
        ELSE IF filter = None THEN img
        ELSE [width |-> op.width, height |-> op.height,
              pixels |-> Append(img.pixels, SamplingFilterFrom(filter.some))]

\* the named filters of the imaging primitive that the names map onto
PhotonFilters == {"oceanic", "islands", "marine"}

\* SpecTransform<&Filter>::transform: the primitive is looked up by the
\* string key of the name; a name without a key, or a key without a
\* primitive, changes nothing
TransformFilter(img, op) ==
    LET name == EnumFromI32(FilterEnum, op.filter)
        key == FilterToStr(name.some)
    IN  IF name = None THEN img
        ELSE IF key = None THEN img
        ELSE IF key.some \notin PhotonFilters THEN img
        ELSE [img EXCEPT !.pixels = Append(img.pixels, key.some)]

\* the dispatch of one Spec on its variant; a Spec without data is skipped
Transform(img, spec) ==
    IF spec.data = None THEN img
    ELSE IF spec.data.variant = "Resize" THEN TransformResize(img, spec.data.v)
    ELSE TransformFilter(img, spec.data.v)

RECURSIVE ApplyFrom(_, _, _)
\* the loop of Engine::apply over the slice, from index i on
ApplyFrom(img, list, i) ==
    IF i > Len(list) THEN img
    ELSE ApplyFrom(Transform(img, list[i]), list, i + 1)

\* Engine::apply(&mut self, specs)
EngineApply(img, list) == ApplyFrom(img, list, 1)

\* generate(&self, format): the engine is borrowed and stays usable
EngineBorrowedByGenerate(e) == e

\* the engine left behind by generate(self, format): it was moved
EngineAfterGenerate(e) == "consumed"

\* Engine::generate(self, format): the buffer in the requested container
EngineGenerate(img, format) == [format |-> format, image |-> img]

(***************************************************************************)
(* Scenario 4, the pipeline: build, encode, decode, then one engine that   *)
(* is given slices of the decoded specs and is finalized or dropped.       *)
(***************************************************************************)
EngineWidths == {U32(600), U32(800)}
EngineHeights == {U32(600)}
EngineSampleFilters == {"CatmullRom"}
EngineFilters == {"Unspecified", "Marine", "Oceanic"}

InitEngine == InitCodec

\* the engine is created over the source image once the token is decoded
EngineNew ==
    /\ pc = "decoded"
    /\ decoded.ok
    /\ engine = "none"
    /\ engine' = "live"
    /\ image' = SourceImage
    /\ pc' = "engine"
    /\ UNCHANGED <<output, applied, generates, applies, specs, lastCall, token,
                   decoded, wireVars, kvVars>>

\* engine.apply(&specs[from - 1..to]): a slice of the decoded specs, the
\* empty one (to = from - 1) included
Apply(from, to) ==
    /\ pc = "engine"
    /\ engine = "live"
    /\ applies < MaxApplies
    /\ from <= to + 1
    /\ to <= Len(decoded.value.specs)
    /\ image' = EngineApply(image, SubSeq(decoded.value.specs, from, to))
    /\ applied' = applied \o SubSeq(decoded.value.specs, from, to)
    /\ applies' = applies + 1
    /\ UNCHANGED <<engine, output, generates, specs, lastCall, token, decoded,
                   pc, wireVars, kvVars>>

\* engine.generate(format)
Generate(format) ==
    /\ pc = "engine"
    /\ engine = "live"
    /\ output' = EngineGenerate(image, format)
    /\ engine' = EngineAfterGenerate(engine)
    /\ generates' = generates + 1
    /\ UNCHANGED <<image, applied, applies, specs, lastCall, token, decoded, pc,
                   wireVars, kvVars>>

\* the request is aborted: the engine goes out of scope
Drop ==
    /\ pc = "engine"
    /\ engine = "live"
    /\ engine' = "dropped"
    /\ UNCHANGED <<image, output, applied, generates, applies, specs, lastCall,
                   token, decoded, pc, wireVars, kvVars>>

NextEngine ==
    \/ \E w \in EngineWidths, h \in EngineHeights, f \in EngineSampleFilters :
            CallNewResize(w, h, f)
    \/ \E w \in EngineWidths, h \in EngineHeights : CallNewResizeSeamCarve(w, h)
    \/ \E f \in EngineFilters : CallNewFilter(f)
    \/ Encode
    \/ Decode
    \/ EngineNew
    \/ \E from \in 1..MaxSpecs, to \in 0..MaxSpecs : Apply(from, to)
    \/ \E f \in ImageFormats : Generate(f)
    \/ Drop

SpecEngine == InitEngine /\ [][NextEngine]_vars

(***************************************************************************)
(* Scenario 5, httpie: one body argument is parsed as key=value.           *)
(***************************************************************************)
KvChars == {"a", "b", "1", "="}

RECURSIVE Split(_, _)
\* s.split(sep): the pieces between the separators, at least one
Split(s, sep) ==
    IF \A i \in DOMAIN s : s[i] # sep THEN <<s>>
    ELSE LET at == CHOOSE i \in DOMAIN s :
                        s[i] = sep /\ \A j \in 1..(i - 1) : s[j] # sep
         IN  <<SubSeq(s, 1, at - 1)>> \o Split(SubSeq(s, at + 1, Len(s)), sep)

\* from_str that also requires a value that is not empty
KvPairFromStrNonEmpty(s) ==
    LET split == Split(s, "=")
        err == [ok |-> FALSE, error |-> <<"Failed to parse ", s>>]
    IN  IF Len(split) < 2 THEN err
        ELSE IF split[2] = <<>> THEN err
        ELSE [ok |-> TRUE, value |-> [k |-> split[1], v |-> split[2]]]

\* impl FromStr for KvPair: the first two items of the split, each required
KvPairFromStr(s) ==
    LET split == Split(s, "=")
        err == [ok |-> FALSE, error |-> <<"Failed to parse ", s>>]
    IN  IF Len(split) < 1 THEN err
        ELSE IF Len(split) < 2 THEN err
        ELSE [ok |-> TRUE, value |-> [k |-> split[1], v |-> split[2]]]

\* parse_kv_pair
ParseKvPair(s) == KvPairFromStr(s)

InitKv == /\ pc = "arg"
          /\ CodecIdle /\ WireIdle /\ EngineIdle /\ KvIdle

\* one more character of the command-line argument
KvAppend(c) ==
    /\ pc = "arg"
    /\ Len(kvInput) < MaxKvLen
    /\ kvInput' = Append(kvInput, c)
    /\ UNCHANGED <<kvResult, pc, specs, lastCall, token, decoded, wireVars,
                   engineVars>>

\* clap hands the argument to the value parser
ParseKv ==
    /\ pc = "arg"
    /\ kvResult' = ParseKvPair(kvInput)
    /\ pc' = "parsed"
    /\ UNCHANGED <<kvInput, specs, lastCall, token, decoded, wireVars, engineVars>>

NextKv ==
    \/ \E c \in KvChars : KvAppend(c)
    \/ ParseKv

SpecKv == InitKv /\ [][NextKv]_vars

(***************************************************************************)
(* The properties.                                                         *)
(***************************************************************************)
UrlSafeChars == Range(Upper) \cup Range(Lower) \cup Range(Digit) \cup {"-", "_"}

\* C1: round trip.  Decoding the token produced by encoding the ImageSpec
\* built from any list of constructed Specs succeeds and yields that
\* ImageSpec: the same specs in the same order.
RoundTrip ==
    pc = "decoded" => /\ decoded.ok
                      /\ decoded.value = ImageSpecNew(specs)

RoundTripWitness ==
    /\ pc = "decoded"
    /\ specs = <<NewResize(U32(600), U32(600), "CatmullRom"), NewFilter("Marine")>>
    /\ decoded.ok
    /\ Len(decoded.value.specs) = 2

\* C2: a token that is not unpadded URL-safe base64 (a character outside
\* A-Z a-z 0-9 - _, or a length of 1 modulo 4) is never decoded into an
\* ImageSpec: try_from returns the error of the base64 kind, which is not
\* the kind returned for malformed wire bytes.
InvalidBase64Rejected ==
    (/\ pc = "decoded"
     /\ \/ \E i \in DOMAIN token : token[i] \notin UrlSafeChars
        \/ Len(token) % 4 = 1)
    => /\ ~decoded.ok
       /\ decoded.error = "base64::DecodeError"
       /\ decoded.error # "prost::DecodeError"

InvalidBase64Witness ==
    /\ pc = "decoded"
    /\ token = <<"C", "g", "A", "=">>
    /\ ~decoded.ok

\* C3 as stated: the token of every sequence of three bytes fails to decode,
\* with the error of the malformed-wire-bytes kind.
ThreeBytesAlwaysMalformed ==
    (pc = "decoded" /\ records = <<>> /\ Len(wire) = 3)
    => /\ ~decoded.ok
       /\ decoded.error = "prost::DecodeError"

\* C3, amended: the token of raw bytes is valid base64, so its decode never
\* fails with the base64 kind; bytes that start with an invalid key (tag 0,
\* wire type 6 or 7) fail, with the malformed-wire-bytes kind; and three
\* bytes either fail with that kind or, when they are complete fields
\* (an unknown field that is skipped, an empty specs record), decode into an
\* ImageSpec that holds no operation: no Spec, or one Spec without data.
ThreeBytesMalformedOrEmpty ==
    (pc = "decoded" /\ records = <<>>)
    => /\ ~decoded.ok => decoded.error = "prost::DecodeError"
       /\ (wire # <<>> /\ (wire[1] < 8 \/ wire[1] % 8 \in {6, 7})) => ~decoded.ok
       /\ (Len(wire) = 3 /\ decoded.ok)
            => /\ Len(decoded.value.specs) <= 1
               /\ \A i \in DOMAIN decoded.value.specs :
                        decoded.value.specs[i].data = None

ThreeBytesWitness ==
    /\ pc = "decoded"
    /\ records = <<>>
    /\ wire = <<10, 128, 0>>
    /\ decoded.ok
    /\ decoded.value.specs = <<DefaultSpec>>

\* C4: every character of the token of an ImageSpec is in the URL-safe
\* base64 alphabet; the token holds no '+', no '/' and no '=', whatever the
\* number of serialized bytes.
TokenCharset ==
    pc \in {"encoded", "decoded"}
    => \A i \in DOMAIN token : /\ token[i] \in UrlSafeChars
                               /\ token[i] \notin {"+", "/", "="}

TokenCharsetWitness ==
    /\ pc = "encoded"
    /\ Len(specs) = 2
    /\ Len(token) % 4 = 2
    /\ \E i \in DOMAIN token : token[i] = "_"

\* the specs this decoder is expected to give for the records on the wire
ExpectedSpecs ==
    [i \in DOMAIN records |->
        IF records[i].kind = "known" THEN records[i].spec ELSE DefaultSpec]

\* C5: forward compatibility.  A token whose records are well formed and
\* some of which carry an operation kind unknown to this decoder decodes
\* successfully: each unknown record is a Spec without data at its position,
\* the known records around it are decoded unchanged and in order.
ForwardCompatible ==
    (pc = "decoded" /\ records # <<>>)
    => /\ decoded.ok
       /\ decoded.value.specs = ExpectedSpecs

ForwardCompatibleWitness ==
    /\ pc = "decoded"
    /\ Len(records) = 3
    /\ records[1].kind = "known"
    /\ records[2].kind = "unknown"
    /\ records[2].body # <<>>
    /\ records[3].kind = "known"
    /\ records[1] # records[3]
    /\ decoded.ok
    /\ decoded.value.specs[2] = DefaultSpec

\* C6: single use.  On one engine generate occurs at most once, nothing is
\* applied after generate, output exists only once generate has run, and an
\* engine dropped before generate leaves no output.
EngineSingleUse ==
    /\ [](generates <= 1)
    /\ [](output # None => engine = "consumed" /\ generates = 1)
    /\ [](engine = "dropped" => output = None /\ generates = 0)
    /\ [][generates >= 1 => /\ applies' = applies
                            /\ applied' = applied
                            /\ image' = image]_vars
    /\ [][output' # output => generates' = generates + 1]_vars

EngineSingleUseWitness ==
    /\ engine = "consumed"
    /\ generates = 1
    /\ applies = 2
    /\ output = EngineGenerate(image, "Jpeg")

RECURSIVE InOrder(_, _)
\* s1, then s2, ..., then sn applied to img, each on the state left by the
\* one before
InOrder(img, list) ==
    IF list = <<>> THEN img
    ELSE Transform(InOrder(img, SubSeq(list, 1, Len(list) - 1)), list[Len(list)])

\* the lists that hold the Specs of `list` in another order
Reordered(list) ==
    {q \in {[i \in DOMAIN list |-> list[p[i]]] : p \in Permutations(DOMAIN list)} :
        q # list}

\* C7: ordered application.  The buffer of the engine is the source image
\* with every Spec handed to apply so far applied one at a time in list
\* order, none skipped or reordered, however the Specs were split over the
\* apply calls; and a list of Specs in another order has another token.
OrderedApplication ==
    /\ engine # "none" => image = InOrder(SourceImage, applied)
    /\ pc # "build" =>
         \A q \in Reordered(specs) : ImageSpecToString(ImageSpecNew(q)) # token

OrderedApplicationWitness ==
    /\ engine = "live"
    /\ applies = 1
    /\ specs = <<NewResize(U32(600), U32(600), "CatmullRom"), NewFilter("Marine")>>
    /\ applied = specs
    /\ image = [width |-> U32(600), height |-> U32(600),
                pixels |-> <<"source", "CatmullRom", "marine">>]

\* C8: the Unspecified filter is a no-op.  Unspecified has no string key, an
\* apply whose Specs are all new_filter(Unspecified) leaves the buffer as it
\* was, and the other names have distinct keys that are not empty.
UnspecifiedFilterNoOp ==
    /\ [](FilterToStr("Unspecified") = None)
    /\ [](\A f \in FilterNames \ {"Unspecified"} :
            /\ FilterToStr(f) # None
            /\ FilterToStr(f).some # ""
            /\ \A g \in FilterNames \ {"Unspecified", f} :
                    FilterToStr(g) # FilterToStr(f))
    /\ [](engine = "live" => EngineApply(image, <<NewFilter("Unspecified")>>) = image)
    /\ [][(/\ applies' = applies + 1
           /\ \A i \in DOMAIN applied' :
                i > Len(applied) => applied'[i] = NewFilter("Unspecified"))
          => image' = image]_vars

UnspecifiedFilterWitness ==
    /\ engine = "live"
    /\ applies = 1
    /\ applied = <<NewFilter("Unspecified"), NewFilter("Unspecified")>>
    /\ image = SourceImage

\* C9: the constructors.  new_resize_seam_carve(width, height) is a Resize
\* with that width and height, type SeamCarve and filter Undefined;
\* new_resize(width, height, f) is a Resize with that width and height, type
\* Normal and filter f; for every width and height, 0 included.
ConstructorsExact ==
    lastCall # None =>
        LET built == specs[Len(specs)]
        IN  /\ lastCall.fn = "new_resize_seam_carve" =>
                 /\ built.data # None
                 /\ built.data.variant = "Resize"
                 /\ built.data.v.width = lastCall.width
                 /\ built.data.v.height = lastCall.height
                 /\ EnumFromI32(ResizeType, built.data.v.rtype) = [some |-> "SeamCarve"]
                 /\ EnumFromI32(SampleFilter, built.data.v.filter) = [some |-> "Undefined"]
            /\ lastCall.fn = "new_resize" =>
                 /\ built.data # None
                 /\ built.data.variant = "Resize"
                 /\ built.data.v.width = lastCall.width
                 /\ built.data.v.height = lastCall.height
                 /\ EnumFromI32(ResizeType, built.data.v.rtype) = [some |-> "Normal"]
                 /\ EnumFromI32(SampleFilter, built.data.v.filter)
                        = [some |-> lastCall.filter]

ConstructorsWitness ==
    /\ pc = "build"
    /\ lastCall = [fn |-> "new_resize_seam_carve", width |-> U32Max,
                   height |-> U32Zero]
    /\ Len(specs) = 2
    /\ specs[1].data.v.rtype = ResizeType.Normal
    /\ specs[2].data.v.width = U32Max

\* C10: parse_kv_pair fails exactly when the argument holds no '='; for
\* k=v with a single '=' it returns k, the text before it, and v, the text
\* after it, an empty v included.
KvPairContract ==
    pc = "parsed" =>
        /\ ~kvResult.ok <=> (\A i \in DOMAIN kvInput : kvInput[i] # "=")
        /\ \A i \in DOMAIN kvInput :
              (/\ kvInput[i] = "="
               /\ \A j \in DOMAIN kvInput : j # i => kvInput[j] # "=")
              => /\ kvResult.ok
                 /\ kvResult.value.k = SubSeq(kvInput, 1, i - 1)
                 /\ kvResult.value.v = SubSeq(kvInput, i + 1, Len(kvInput))

KvPairWitness ==
    /\ pc = "parsed"
    /\ kvInput = <<"b", "=">>
    /\ kvResult = [ok |-> TRUE, value |-> [k |-> <<"b">>, v |-> <<>>]]

=============================================================================
